---- MODULE Spec2Model ----
(***************************************************************************)
(* Distributed task scheduler: submission gateway (internal/server), job  *)
(* store (internal/db, PostgreSQL), dispatch queue (internal/queue, three  *)
(* Redis lists), worker loop (internal/worker) and the leader-elected      *)
(* maintenance loop (internal/server StartLeaderLoops, internal/coord).    *)
(*                                                                         *)
(* Redis lists are sequences: index 1 is the head (left end), index Len    *)
(* is the tail (right end).  Strings that the code builds by               *)
(* concatenation (job output) are sequences of tokens, so that             *)
(* concatenation is \o and the empty string is << >>.  A nullable SQL      *)
(* column is a sequence of length 0 (NULL) or 1.                           *)
(***************************************************************************)
EXTENDS Integers, Sequences, FiniteSets, TLC

VARIABLES
    db,        \* PostgreSQL: [tasks, task_history]
    redis,     \* Redis: [pending_jobs, processing_jobs, dlq_tasks]
    worker,    \* per worker process: position in Start/processNextJob and locals
    ctxDone,   \* per worker process: the context of Start has been cancelled
    srv,       \* per server instance: position in StartLeaderLoops and its locals
    sub,       \* per job id: progress of the SubmitJob call that created the row
    execs,     \* per job id: number of times a worker ran the command (observer)
    calls,     \* per job id: what the calls carrying it did (observer)
    now        \* wall clock, Unix seconds

vars == <<db, redis, worker, ctxDone, srv, sub, execs, calls, now>>

-----------------------------------------------------------------------------
(* Bounds of the model *)

Jobs == {"j1", "j2"}
Workers == {"w1", "w2"}
Servers == {"s1", "s2"}

\* enqueueing leader ticks per server instance in the dispatch model (Spec)
MaxTicks == 1
\* enqueueing leader ticks per server instance in the single-worker models
MaxSweeps == 4
\* elections one server instance wins
MaxTerms == 2
\* SubmitJob calls per job id that end at the validation or at the unique key
MaxCalls == 2
\* entries the three lists hold together in the queue model (QueueSpec)
MaxLen == 3
\* the instants the clock shows: one less and one more than a stale cutoff apart
Instants == {0, 301, 602}

-----------------------------------------------------------------------------
(* Program constants *)

\* worker.go: MAX_RETRIES, attempts of Pop / GetJob / final status write
MAX_RETRIES == 3
\* server.go: MarkStaleRunningJobsFailed(600)
StaleCutoffSeconds == 600
\* server.go: GetDueTaskIDs(100)
DueLimit == 100
\* db: ALTER TABLE tasks ADD COLUMN max_retries INTEGER NOT NULL DEFAULT 3
DefaultMaxRetries == 3

NULL == << >>

\* shell commands a client submits, with what sh -c does with them
Commands == {"echo hello", "false"}

\* commands that are empty once trimmed
BlankCommands == {"", "  "}

\* a validation that compares the command untrimmed
TrimSpaceNone(command) == command

\* strings.TrimSpace: leading and trailing white space removed
TrimSpace(command) == IF command \in {"", "  "} THEN "" ELSE command

\* exec.Cmd.CombinedOutput: the error (NULL when the exit status is 0)
CmdErr(command) == IF command = "false" THEN <<"exit status 1">> ELSE NULL

\* exec.Cmd.CombinedOutput: stdout and stderr merged
CmdOutput(command) == IF command = "echo hello" THEN <<"hello\n">> ELSE << >>

-----------------------------------------------------------------------------
(* Sequence helpers *)

Last(s) == s[Len(s)]

Front(s) == SubSeq(s, 1, Len(s) - 1)

Range(s) == {s[i] : i \in 1..Len(s)}

Count(s, x) == Cardinality({i \in 1..Len(s) : s[i] = x})

\* index of the first occurrence of x in s, 0 when there is none
FirstIndex(s, x) ==
    IF \E i \in 1..Len(s) : s[i] = x
    THEN CHOOSE i \in 1..Len(s) : s[i] = x /\ \A k \in 1..(i - 1) : s[k] # x
    ELSE 0

\* Redis LREM key 1 value: remove the first occurrence, from the head
LRem1(s, x) ==
    LET i == FirstIndex(s, x)
    IN  IF i = 0 THEN s ELSE SubSeq(s, 1, i - 1) \o SubSeq(s, i + 1, Len(s))

-----------------------------------------------------------------------------
(* internal/queue: the three Redis lists *)

EmptyRedis == [pending_jobs |-> << >>, processing_jobs |-> << >>, dlq_tasks |-> << >>]

\* a push that reports success and appends nothing
PushJobDropped(q, jobId) == q

\* a push that appends the id twice
PushJobTwice(q, jobId) == [q EXCEPT !.pending_jobs = @ \o <<jobId, jobId>>]

\* PushJob: RPUSH pending_jobs jobId (append at the tail)
PushJob(q, jobId) == [q EXCEPT !.pending_jobs = Append(@, jobId)]

\* the element BRPOPLPUSH takes: the one at the tail of the source list
PopJobId(q) == Last(q.pending_jobs)

\* a pop that is a plain RPOP: the entry leaves pending_jobs and is held by
\* the caller alone
PopJobRPop(q) == [q EXCEPT !.pending_jobs = Front(@)]

\* PopJob: BRPOPLPUSH pending_jobs processing_jobs, one atomic Redis command:
\* RPOP at the tail of the source, LPUSH at the head of the destination
PopJob(q) ==
    [q EXCEPT !.pending_jobs = Front(@),
              !.processing_jobs = <<PopJobId(q)>> \o @]

\* an acknowledgement that is LREM processing_jobs -1 jobId: the last
\* occurrence is removed
AckProcessingLast(q, jobId) ==
    LET s == q.processing_jobs
        occ == {i \in 1..Len(s) : s[i] = jobId}
    IN  IF occ = {}
        THEN q
        ELSE LET i == CHOOSE i \in occ : \A k \in occ : k <= i
             IN  [q EXCEPT !.processing_jobs = SubSeq(s, 1, i - 1) \o SubSeq(s, i + 1, Len(s))]

\* AckProcessing: LREM processing_jobs 1 jobId
AckProcessing(q, jobId) == [q EXCEPT !.processing_jobs = LRem1(@, jobId)]

\* a requeue that is LREM, then LPUSH pending_jobs (insert at the head)
RequeueAtHead(q, jobId) ==
    [q EXCEPT !.processing_jobs = LRem1(@, jobId),
              !.pending_jobs = <<jobId>> \o @]

\* RequeueFromProcessing: LREM processing_jobs 1 jobId, then RPUSH pending_jobs
RequeueFromProcessing(q, jobId) ==
    [q EXCEPT !.processing_jobs = LRem1(@, jobId),
              !.pending_jobs = Append(@, jobId)]

\* MoveToDLQ: LREM processing_jobs 1 jobId, then RPUSH dlq_tasks
MoveToDLQ(q, jobId) ==
    [q EXCEPT !.processing_jobs = LRem1(@, jobId),
              !.dlq_tasks = Append(@, jobId)]

-----------------------------------------------------------------------------
(* internal/db: tables tasks and task_history *)

EmptyDB == [tasks |-> << >>, task_history |-> [id \in Jobs |-> << >>]]

\* nullableString: "" becomes SQL NULL, any other string a valid value
nullableString(s) == IF s = << >> THEN NULL ELSE <<s>>

\* SQL COALESCE(output, '')
Coalesce(col) == IF col = NULL THEN << >> ELSE col[1]

\* the row CreateJob inserts; max_retries, cron_expr and next_run_at take the
\* column defaults
NewTask(command, t) ==
    [status |-> "PENDING", command |-> command, output |-> NULL,
     retries |-> 0, max_retries |-> DefaultMaxRetries,
     execute_at |-> NULL, cron_expr |-> NULL, next_run_at |-> NULL,
     updated_at |-> t]

\* a tasks table without its primary key
CreateJobOkAlways(d, id) == TRUE

\* CreateJob: the INSERT succeeds when the primary key id is free
CreateJobOk(d, id) == id \notin DOMAIN d.tasks

\* CreateJob: INSERT INTO tasks, for an INSERT that succeeds
CreateJob(d, id, command, t) ==
    [d EXCEPT !.tasks = (id :> NewTask(command, t)) @@ d.tasks]

\* the task_history row UpdateJobStatus inserts
HistoryRow(status, output, t) ==
    [status |-> status,
     start_time |-> IF status = "RUNNING" THEN <<t>> ELSE NULL,
     end_time |-> IF status \in {"SUCCEEDED", "FAILED"} THEN <<t>> ELSE NULL,
     result |-> nullableString(output)]

\* a status update that leaves the output column as it was
UpdateJobStatusOnly(d, id, status, output, t, histOk) ==
    IF id \notin DOMAIN d.tasks
    THEN d
    ELSE [d EXCEPT !.tasks[id].status = status, !.tasks[id].updated_at = t]

\* a status update that appends the output to what the column holds
UpdateJobStatusAppend(d, id, status, output, t, histOk) ==
    IF id \notin DOMAIN d.tasks
    THEN d
    ELSE [d EXCEPT !.tasks[id].status = status,
                   !.tasks[id].output = nullableString(Coalesce(@) \o output),
                   !.tasks[id].updated_at = t]

\* a status update in one transaction with its history row: when the
\* history INSERT fails the row is left as it was
UpdateJobStatusAtomic(d, id, status, output, t, histOk) ==
    IF id \notin DOMAIN d.tasks \/ ~histOk
    THEN d
    ELSE [tasks |-> [d.tasks EXCEPT ![id].status = status,
                                    ![id].output = nullableString(output),
                                    ![id].updated_at = t],
          task_history |->
              [d.task_history EXCEPT ![id] = Append(@, HistoryRow(status, output, t))]]

\* UpdateJobStatus whose UPDATE succeeded: the row takes status, output and
\* updated_at; the history INSERT is best effort (histOk)
UpdateJobStatus(d, id, status, output, t, histOk) ==
    IF id \notin DOMAIN d.tasks
    THEN d
    ELSE [tasks |-> [d.tasks EXCEPT ![id].status = status,
                                    ![id].output = nullableString(output),
                                    ![id].updated_at = t],
          task_history |->
              IF histOk
              THEN [d.task_history EXCEPT ![id] = Append(@, HistoryRow(status, output, t))]
              ELSE d.task_history]

\* IncrementRetry: UPDATE tasks SET retries = retries + 1
IncrementRetry(d, id, t) ==
    [d EXCEPT !.tasks[id].retries = @ + 1, !.tasks[id].updated_at = t]

\* ResetToPending: UPDATE tasks SET status='PENDING', output, updated_at
ResetToPending(d, id, output, t) ==
    [d EXCEPT !.tasks[id].status = "PENDING",
              !.tasks[id].output = nullableString(output),
              !.tasks[id].updated_at = t]

\* a WHERE clause that selects only rows whose execute_at or next_run_at
\* has been reached
IsDueScheduled(row, t) ==
    /\ row.status = "PENDING"
    /\ \/ (row.execute_at # NULL /\ row.execute_at[1] <= t)
       \/ (row.next_run_at # NULL /\ row.next_run_at[1] <= t)

\* GetJobStatus of the gateway, for an id that has a row: GetJob, then the
\* nullable output read as "" when NULL
GetJobStatus(d, id) ==
    [Id |-> id,
     Status |-> d.tasks[id].status,
     Output |-> Coalesce(d.tasks[id].output),
     UpdatedAt |-> d.tasks[id].updated_at]

\* the WHERE clause of GetDueTaskIDs
IsDue(row, t) ==
    /\ row.status = "PENDING"
    /\ \/ row.execute_at = NULL
       \/ row.execute_at[1] <= t
       \/ (row.next_run_at # NULL /\ row.next_run_at[1] <= t)

\* first n entries of s (SQL LIMIT n)
Limit(s, n) == IF Len(s) <= n THEN s ELSE SubSeq(s, 1, n)

\* GetDueTaskIDs: every answer the query may give: the due ids ordered by
\* updated_at ascending (rows with equal updated_at in any order), LIMIT limit
GetDueTaskIDs(d, limit, t) ==
    LET due == {id \in DOMAIN d.tasks : IsDue(d.tasks[id], t)}
        n == Cardinality(due)
        orders == {s \in [1..n -> due] :
                      /\ \A i, k \in 1..n : i # k => s[i] # s[k]
                      /\ \A i, k \in 1..n :
                            i < k => d.tasks[s[i]].updated_at <= d.tasks[s[k]].updated_at}
    IN  {Limit(s, limit) : s \in orders}

\* an UPDATE that sets updated_at and leaves execute_at as it is
ClearExecuteAtKept(d, id, t) ==
    [d EXCEPT !.tasks[id].updated_at = t]

\* ClearExecuteAt: UPDATE tasks SET execute_at=NULL, updated_at
ClearExecuteAt(d, id, t) ==
    [d EXCEPT !.tasks[id].execute_at = NULL, !.tasks[id].updated_at = t]

\* UpdateNextRun: UPDATE tasks SET next_run_at, updated_at
UpdateNextRun(d, id, next, t) ==
    [d EXCEPT !.tasks[id].next_run_at = <<next>>, !.tasks[id].updated_at = t]

\* the demo cron expression "*/1 * * * *" fires at every whole minute
CronExpr == "*/1 * * * *"

\* seconds between two firings of CronExpr
CronPeriod == 60

\* sched.Next(t) of the schedule parsed from CronExpr: the first whole
\* minute strictly after t
CronNext(t) == ((t \div CronPeriod) + 1) * CronPeriod

\* the row an operator's INSERT INTO tasks writes: the columns CreateJob
\* writes plus execute_at, cron_expr and next_run_at
ScheduledTask(command, execute_at, cron_expr, next_run_at, t) ==
    [NewTask(command, t) EXCEPT !.execute_at = execute_at,
                                !.cron_expr = cron_expr,
                                !.next_run_at = next_run_at]

\* the text MarkStaleRunningJobsFailed appends to the output column
StaleMarker == "\\n[auto] marked failed due to staleness"

\* a WHERE clause without the age condition
IsStaleAnyAge(row, cutoffSeconds, t) ==
    row.status = "RUNNING"

\* the WHERE clause of MarkStaleRunningJobsFailed
IsStale(row, cutoffSeconds, t) ==
    row.status = "RUNNING" /\ row.updated_at < t - cutoffSeconds

\* MarkStaleRunningJobsFailed: one UPDATE statement over tasks, no history row
MarkStaleRunningJobsFailed(d, cutoffSeconds, t) ==
    [d EXCEPT !.tasks =
        [id \in DOMAIN d.tasks |->
            IF IsStale(d.tasks[id], cutoffSeconds, t)
            THEN [d.tasks[id] EXCEPT
                     !.status = "FAILED",
                     !.output = <<Coalesce(@) \o <<StaleMarker>>>>,
                     !.updated_at = t]
            ELSE d.tasks[id]]]

-----------------------------------------------------------------------------
(* State after construction: empty store, empty broker, workers at the top *)
(* of Start, servers campaigning, no Submit made                           *)

NoCalls == [creates |-> 0, pushes |-> 0, conflicts |-> 0, invalid |-> 0,
            acks |-> 0, requeues |-> 0]

IdleWorker == [pc |-> "loop", jobId |-> "", retries |-> 0, status |-> "", outputStr |-> << >>]

IdleServer == [pc |-> "campaign", lease |-> FALSE, terms |-> 0, ids |-> << >>, ticks |-> 0]

Init ==
    /\ db = EmptyDB
    /\ redis = EmptyRedis
    /\ worker = [w \in Workers |-> IdleWorker]
    /\ ctxDone = [w \in Workers |-> FALSE]
    /\ srv = [s \in Servers |-> IdleServer]
    /\ sub = [id \in Jobs |-> "none"]
    /\ calls = [id \in Jobs |-> NoCalls]
    /\ execs = [id \in Jobs |-> 0]
    /\ now = 0

-----------------------------------------------------------------------------
(* internal/server: SubmitJob.  The handler makes two calls, CreateJob and *)
(* PushJob; other processes run between them.                              *)

\* SubmitJob, validation: a command that is empty once trimmed is refused
\* before any call to the store or the broker
SubmitJobInvalid(id, command) ==
    /\ TrimSpace(command) = ""
    /\ calls[id].invalid + calls[id].conflicts < MaxCalls
    /\ calls' = [calls EXCEPT ![id].invalid = @ + 1]
    /\ UNCHANGED <<db, redis, worker, ctxDone, srv, sub, execs, now>>

\* SubmitJob up to and including a successful CreateJob (a fresh uuid, or a
\* caller-supplied id no row has)
SubmitJobCreate(id, command) ==
    /\ TrimSpace(command) # ""
    /\ CreateJobOk(db, id)
    /\ calls[id].creates < MaxCalls
    /\ db' = CreateJob(db, id, command, now)
    /\ sub' = [sub EXCEPT ![id] = "created"]
    /\ calls' = [calls EXCEPT ![id].creates = @ + 1]
    /\ UNCHANGED <<redis, worker, ctxDone, srv, execs, now>>

\* SubmitJob, CreateJob failed at the primary key: the handler returns the
\* error without calling PushJob
SubmitJobConflict(id) ==
    /\ ~CreateJobOk(db, id)
    /\ calls[id].invalid + calls[id].conflicts < MaxCalls
    /\ calls' = [calls EXCEPT ![id].conflicts = @ + 1]
    /\ UNCHANGED <<db, redis, worker, ctxDone, srv, sub, execs, now>>

\* SubmitJob, PushJob succeeded: the handler returns success
SubmitJobPush(id) ==
    /\ sub[id] = "created"
    /\ redis' = PushJob(redis, id)
    /\ sub' = [sub EXCEPT ![id] = "queued"]
    /\ calls' = [calls EXCEPT ![id].pushes = @ + 1]
    /\ UNCHANGED <<db, worker, ctxDone, srv, execs, now>>

\* SubmitJob, PushJob failed: the row is marked FAILED (when that UPDATE
\* itself succeeds) and the handler returns the error
SubmitJobPushError(id, dbOk, histOk) ==
    /\ sub[id] = "created"
    /\ db' = IF dbOk
             THEN UpdateJobStatus(db, id, "FAILED",
                                  <<"Failed to add job to processing queue">>, now, histOk)
             ELSE db
    /\ sub' = [sub EXCEPT ![id] = "failed"]
    /\ UNCHANGED <<redis, worker, ctxDone, srv, execs, calls, now>>

\* the gateway process dies between CreateJob and PushJob
GatewayCrash(id) ==
    /\ sub[id] = "created"
    /\ sub' = [sub EXCEPT ![id] = "crashed"]
    /\ UNCHANGED <<db, redis, worker, ctxDone, srv, execs, calls, now>>

-----------------------------------------------------------------------------
(* internal/queue: the methods of QueueManager called by a client of the   *)
(* package, each call answered by the broker.  The model lets the three    *)
(* lists hold up to MaxLen entries together.                               *)

\* number of entries in the three lists
Entries(q) == Len(q.pending_jobs) + Len(q.processing_jobs) + Len(q.dlq_tasks)

\* QueueManager.PushJob(jobId)
QueuePush(id) ==
    /\ Entries(redis) < MaxLen
    /\ redis' = PushJob(redis, id)
    /\ UNCHANGED <<db, worker, ctxDone, srv, sub, execs, calls, now>>

\* QueueManager.PopJob() that returns an id
QueuePop ==
    /\ redis.pending_jobs # << >>
    /\ redis' = PopJob(redis)
    /\ UNCHANGED <<db, worker, ctxDone, srv, sub, execs, calls, now>>

\* QueueManager.AckProcessing(jobId); the observer counts the calls that
\* found the id in processing_jobs
QueueAck(id) ==
    /\ redis' = AckProcessing(redis, id)
    /\ calls' = IF id \in Range(redis.processing_jobs) /\ calls[id].acks < MaxCalls
                THEN [calls EXCEPT ![id].acks = @ + 1]
                ELSE calls
    /\ UNCHANGED <<db, worker, ctxDone, srv, sub, execs, now>>

\* QueueManager.RequeueFromProcessing(jobId): LREM answers 0 without an
\* error when the id is not in processing_jobs, and the RPUSH follows all
\* the same; the observer counts the calls that found the id
QueueRequeue(id) ==
    /\ id \in Range(redis.processing_jobs) \/ Entries(redis) < MaxLen
    /\ redis' = RequeueFromProcessing(redis, id)
    /\ calls' = IF id \in Range(redis.processing_jobs) /\ calls[id].requeues < MaxCalls
                THEN [calls EXCEPT ![id].requeues = @ + 1]
                ELSE calls
    /\ UNCHANGED <<db, worker, ctxDone, srv, sub, execs, now>>

\* QueueManager.MoveToDLQ(jobId): as RequeueFromProcessing, into dlq_tasks
QueueDeadLetter(id) ==
    /\ id \in Range(redis.processing_jobs) \/ Entries(redis) < MaxLen
    /\ redis' = MoveToDLQ(redis, id)
    /\ UNCHANGED <<db, worker, ctxDone, srv, sub, execs, calls, now>>

-----------------------------------------------------------------------------
(* internal/worker: Start and processNextJob *)

\* Start, top of the loop: select on ctx.Done(), default processNextJob
WorkerSelect(w) ==
    /\ worker[w].pc = "loop"
    /\ worker' = [worker EXCEPT ![w] =
                     IF ctxDone[w]
                     THEN [IdleWorker EXCEPT !.pc = "stopped"]
                     ELSE [IdleWorker EXCEPT !.pc = "pop"]]
    /\ UNCHANGED <<db, redis, ctxDone, srv, sub, execs, calls, now>>

\* processNextJob: PopJob returned a job id
WorkerPop(w) ==
    /\ worker[w].pc = "pop"
    /\ redis.pending_jobs # << >>
    /\ redis' = PopJob(redis)
    /\ worker' = [worker EXCEPT ![w].pc = "get",
                                ![w].jobId = PopJobId(redis),
                                ![w].retries = 0]
    /\ UNCHANGED <<db, ctxDone, srv, sub, execs, calls, now>>

\* a worker that takes ErrQueueTimeout for an error and backs off
WorkerPopTimeoutBackoff(w) ==
    /\ worker[w].pc = "pop"
    /\ redis.pending_jobs = << >>
    /\ worker' = [worker EXCEPT ![w] = [IdleWorker EXCEPT !.pc = "backoff"]]
    /\ UNCHANGED <<db, redis, ctxDone, srv, sub, execs, calls, now>>

\* processNextJob: PopJob found pending_jobs empty for POP_TIMEOUT and
\* returned ErrQueueTimeout; Start continues
WorkerPopTimeout(w) ==
    /\ worker[w].pc = "pop"
    /\ redis.pending_jobs = << >>
    /\ worker' = [worker EXCEPT ![w] = IdleWorker]
    /\ UNCHANGED <<db, redis, ctxDone, srv, sub, execs, calls, now>>

\* processNextJob: PopJob returned a broker error; after MAX_RETRIES attempts
\* processNextJob returns the error and Start backs off
WorkerPopError(w) ==
    /\ worker[w].pc = "pop"
    /\ worker' = [worker EXCEPT ![w] =
                     IF worker[w].retries + 1 < MAX_RETRIES
                     THEN [@ EXCEPT !.retries = @ + 1]
                     ELSE [IdleWorker EXCEPT !.pc = "backoff"]]
    /\ UNCHANGED <<db, redis, ctxDone, srv, sub, execs, calls, now>>

\* Start after an error: select on ctx.Done() and time.After(RECONNECT_DELAY)
WorkerBackoff(w) ==
    /\ worker[w].pc = "backoff"
    /\ worker' = [worker EXCEPT ![w] =
                     IF ctxDone[w]
                     THEN [IdleWorker EXCEPT !.pc = "stopped"]
                     ELSE IdleWorker]
    /\ UNCHANGED <<db, redis, ctxDone, srv, sub, execs, calls, now>>

\* a worker that gives up at the first GetJob that fails
WorkerGetJobErrorOnce(w, dbOk, histOk) ==
    /\ worker[w].pc = "get"
    /\ worker' = [worker EXCEPT ![w] = [IdleWorker EXCEPT !.pc = "backoff"]]
    /\ db' = IF dbOk
             THEN UpdateJobStatus(db, worker[w].jobId, "FAILED",
                                  <<"Failed to retrieve job details: ">>, now, histOk)
             ELSE db
    /\ UNCHANGED <<redis, ctxDone, srv, sub, execs, calls, now>>

\* processNextJob: GetJob failed; after MAX_RETRIES attempts the job is marked
\* FAILED (the result of that UpdateJobStatus is ignored) and the error returned
WorkerGetJobError(w, dbOk, histOk) ==
    /\ worker[w].pc = "get"
    /\ IF worker[w].retries + 1 < MAX_RETRIES
       THEN /\ worker' = [worker EXCEPT ![w].retries = @ + 1]
            /\ db' = db
       ELSE /\ worker' = [worker EXCEPT ![w] = [IdleWorker EXCEPT !.pc = "backoff"]]
            /\ db' = IF dbOk
                     THEN UpdateJobStatus(db, worker[w].jobId, "FAILED",
                                          <<"Failed to retrieve job details: ">>, now, histOk)
                     ELSE db
    /\ UNCHANGED <<redis, ctxDone, srv, sub, execs, calls, now>>

\* processNextJob: GetJob succeeded and UpdateJobStatus(jobId, "RUNNING", "")
\* succeeded; the command is started
WorkerSetRunning(w, histOk) ==
    /\ worker[w].pc = "get"
    /\ worker[w].jobId \in DOMAIN db.tasks
    /\ db' = UpdateJobStatus(db, worker[w].jobId, "RUNNING", << >>, now, histOk)
    /\ worker' = [worker EXCEPT ![w].pc = "exec", ![w].retries = 0]
    /\ UNCHANGED <<redis, ctxDone, srv, sub, execs, calls, now>>

\* processNextJob: GetJob succeeded, UpdateJobStatus(jobId, "RUNNING", "")
\* failed: the error is returned, Start backs off
WorkerSetRunningError(w) ==
    /\ worker[w].pc = "get"
    /\ worker[w].jobId \in DOMAIN db.tasks
    /\ worker' = [worker EXCEPT ![w] = [IdleWorker EXCEPT !.pc = "backoff"]]
    /\ UNCHANGED <<db, redis, ctxDone, srv, sub, execs, calls, now>>

\* status and outputStr of processNextJob from the result of CombinedOutput
\* (err, output) and ctx.Err() (cancelled)
Classify(err, output, cancelled) ==
    IF err # NULL
    THEN IF cancelled
         THEN [status |-> "FAILED", outputStr |-> <<"Job cancelled: ">> \o output]
         ELSE [status |-> "FAILED",
               outputStr |-> <<"Error: ">> \o err \o <<"\nOutput: ">> \o output]
    ELSE [status |-> "SUCCEEDED", outputStr |-> output]

\* processNextJob: CombinedOutput returns.  With ctx cancelled the child is
\* killed (or never started) and err is set; otherwise the command ran to its
\* end.  The result is classified for the final status write.
WorkerExec(w) ==
    /\ worker[w].pc = "exec"
    /\ LET command == db.tasks[worker[w].jobId].command
           err == IF ctxDone[w] THEN <<"signal: killed">> ELSE CmdErr(command)
           output == IF ctxDone[w] THEN << >> ELSE CmdOutput(command)
           c == Classify(err, output, ctxDone[w])
       IN  /\ worker' = [worker EXCEPT ![w].pc = "final",
                                       ![w].retries = 0,
                                       ![w].status = c.status,
                                       ![w].outputStr = c.outputStr]
           /\ execs' = [execs EXCEPT ![worker[w].jobId] =
                           IF ctxDone[w] THEN @ ELSE @ + 1]
    /\ UNCHANGED <<db, redis, ctxDone, srv, sub, calls, now>>

\* processNextJob: the final UpdateJobStatus succeeded; processNextJob returns
\* nil and Start loops
WorkerFinal(w, histOk) ==
    /\ worker[w].pc = "final"
    /\ db' = UpdateJobStatus(db, worker[w].jobId, worker[w].status,
                             worker[w].outputStr, now, histOk)
    /\ worker' = [worker EXCEPT ![w] = IdleWorker]
    /\ UNCHANGED <<redis, ctxDone, srv, sub, execs, calls, now>>

\* a worker that makes one attempt at the final status write
WorkerFinalErrorOnce(w) ==
    /\ worker[w].pc = "final"
    /\ worker' = [worker EXCEPT ![w] = IdleWorker]
    /\ UNCHANGED <<db, redis, ctxDone, srv, sub, execs, calls, now>>

\* processNextJob: the final UpdateJobStatus failed; after MAX_RETRIES attempts
\* processNextJob returns nil all the same
WorkerFinalError(w) ==
    /\ worker[w].pc = "final"
    /\ worker' = [worker EXCEPT ![w] =
                     IF worker[w].retries + 1 < MAX_RETRIES
                     THEN [@ EXCEPT !.retries = @ + 1]
                     ELSE IdleWorker]
    /\ UNCHANGED <<db, redis, ctxDone, srv, sub, execs, calls, now>>

\* cmd/worker main: SIGINT or SIGTERM cancels the context given to Start
WorkerCancel(w) ==
    /\ ~ctxDone[w]
    /\ worker[w].pc \notin {"stopped", "crashed"}
    /\ ctxDone' = [ctxDone EXCEPT ![w] = TRUE]
    /\ UNCHANGED <<db, redis, worker, srv, sub, execs, calls, now>>

\* the worker process is killed; its locals stay as they were
WorkerCrash(w) ==
    /\ worker[w].pc \notin {"stopped", "crashed"}
    /\ worker' = [worker EXCEPT ![w].pc = "crashed"]
    /\ UNCHANGED <<db, redis, ctxDone, srv, sub, execs, calls, now>>

-----------------------------------------------------------------------------
(* internal/coord EtcdLeader.Run and internal/server StartLeaderLoops *)

\* An operator's INSERT INTO tasks of a row for a fresh id (CreateJob leaves
\* execute_at, cron_expr and next_run_at NULL, so rows that have them come
\* from SQL): a one-time row carries execute_at, a recurring row carries
\* CronExpr and next_run_at = now().  Nothing is pushed.
InsertTask(id, command, execute_at, cron_expr) ==
    /\ sub[id] = "none"
    /\ CreateJobOk(db, id)
    /\ (execute_at = NULL) # (cron_expr = NULL)
    /\ db' = [db EXCEPT !.tasks =
                 (id :> ScheduledTask(command, execute_at, cron_expr,
                                      IF cron_expr = NULL THEN NULL ELSE <<now>>,
                                      now)) @@ @]
    /\ sub' = [sub EXCEPT ![id] = "inserted"]
    /\ UNCHANGED <<redis, worker, ctxDone, srv, execs, calls, now>>

\* a Run that campaigns again as soon as its session has ended, without
\* waiting for the callback to return
CampaignNoWait(s) ==
    /\ ~srv[s].lease
    /\ \A o \in Servers : ~srv[o].lease
    /\ srv[s].terms < MaxTerms
    /\ srv' = [srv EXCEPT ![s].pc = "wait", ![s].lease = TRUE, ![s].terms = @ + 1]
    /\ UNCHANGED <<db, redis, worker, ctxDone, sub, execs, calls, now>>

\* Run: NewSession and Campaign returned (no live session of another
\* instance holds the election key); OnStartedLeading started
\* StartLeaderLoops with a fresh leaderCtx, and the loop waits for its
\* ticker.  The model lets an instance win at most MaxTerms elections.
Campaign(s) ==
    /\ srv[s].pc = "campaign"
    /\ \A o \in Servers : ~srv[o].lease
    /\ srv[s].terms < MaxTerms
    /\ srv' = [srv EXCEPT ![s].pc = "wait", ![s].lease = TRUE, ![s].terms = @ + 1]
    /\ UNCHANGED <<db, redis, worker, ctxDone, sub, execs, calls, now>>

\* Run: the session ended (sess.Done(): lease expired or lost), wherever
\* StartLeaderLoops is; the election key is free again and Run cancels
\* leaderCtx, then waits for the loop to return
LeaderStop(s) ==
    /\ srv[s].lease
    /\ srv' = [srv EXCEPT ![s].lease = FALSE]
    /\ UNCHANGED <<db, redis, worker, ctxDone, sub, execs, calls, now>>

\* a loop whose select sees ctx.Done() and goes round again
LeaderExitIgnored(s) ==
    /\ srv[s].pc = "wait"
    /\ ~srv[s].lease
    /\ UNCHANGED vars

\* StartLeaderLoops: the select takes ctx.Done() and the loop returns; Run
\* goes on to campaign again
LeaderExit(s) ==
    /\ srv[s].pc = "wait"
    /\ ~srv[s].lease
    /\ srv' = [srv EXCEPT ![s].pc = "campaign"]
    /\ UNCHANGED <<db, redis, worker, ctxDone, sub, execs, calls, now>>

\* StartLeaderLoops, the select takes ticker.C (with leaderCtx cancelled and
\* the ticker due at once, select takes either), step 1:
\* MarkStaleRunningJobsFailed(600); an error of the UPDATE is logged and the
\* tick goes on.  The model lets an instance that has found ids to enqueue
\* in maxTicks ticks start a tick only while no row is due; ticks that find
\* nothing to enqueue are not counted.
LeaderReap(s, dbOk, maxTicks) ==
    /\ srv[s].pc = "wait"
    /\ srv[s].ticks < maxTicks \/ GetDueTaskIDs(db, DueLimit, now) = {<< >>}
    /\ db' = IF dbOk THEN MarkStaleRunningJobsFailed(db, StaleCutoffSeconds, now) ELSE db
    /\ srv' = [srv EXCEPT ![s].pc = "scan"]
    /\ UNCHANGED <<redis, worker, ctxDone, sub, execs, calls, now>>

\* position of StartLeaderLoops once the first id of ids is done with
AfterId(ids) == IF Len(ids) > 1 THEN "push" ELSE "wait"

\* StartLeaderLoops step 2: GetDueTaskIDs(100) answered
LeaderScan(s) ==
    /\ srv[s].pc = "scan"
    /\ \E ids \in GetDueTaskIDs(db, DueLimit, now) :
          srv' = [srv EXCEPT ![s].ids = ids,
                             ![s].pc = IF ids = << >> THEN "wait" ELSE "push",
                             ![s].ticks = IF ids = << >> THEN @ ELSE @ + 1]
    /\ UNCHANGED <<db, redis, worker, ctxDone, sub, execs, calls, now>>

\* StartLeaderLoops step 2: GetDueTaskIDs(100) failed; the tick ends
LeaderScanError(s) ==
    /\ srv[s].pc = "scan"
    /\ srv' = [srv EXCEPT ![s].pc = "wait"]
    /\ UNCHANGED <<db, redis, worker, ctxDone, sub, execs, calls, now>>

\* StartLeaderLoops, loop over ids: PushJob(ctx, id) succeeded; its
\* ensureConnected and Ping take leaderCtx and fail once it is cancelled
LeaderPush(s) ==
    /\ srv[s].pc = "push"
    /\ srv[s].lease
    /\ redis' = PushJob(redis, Head(srv[s].ids))
    /\ srv' = [srv EXCEPT ![s].pc = "clear"]
    /\ UNCHANGED <<db, worker, ctxDone, sub, execs, calls, now>>

\* a loop that ends the tick at the first push that fails
LeaderPushErrorBreak(s) ==
    /\ srv[s].pc = "push"
    /\ srv' = [srv EXCEPT ![s].ids = << >>, ![s].pc = "wait"]
    /\ UNCHANGED <<db, redis, worker, ctxDone, sub, execs, calls, now>>

\* StartLeaderLoops, loop over ids: PushJob(id) failed; continue with the
\* next id
LeaderPushError(s) ==
    /\ srv[s].pc = "push"
    /\ srv' = [srv EXCEPT ![s].ids = Tail(@), ![s].pc = AfterId(srv[s].ids)]
    /\ UNCHANGED <<db, redis, worker, ctxDone, sub, execs, calls, now>>

\* the rest of the loop body for id when the store answers: ClearExecuteAt,
\* then GetJob and, for a row with a cron_expr, UpdateNextRun with
\* sched.Next(time.Now())
ClearAndAdvance(d, id, t) ==
    LET cleared == ClearExecuteAt(d, id, t)
    IN  IF cleared.tasks[id].cron_expr # NULL
        THEN UpdateNextRun(cleared, id, CronNext(t), t)
        ELSE cleared

\* StartLeaderLoops, loop over ids after the push: ClearExecuteAt(id), GetJob(id)
\* and UpdateNextRun; their errors are ignored (dbOk = FALSE: the store fails
\* the calls and the row stays as it is)
LeaderClear(s, dbOk) ==
    /\ srv[s].pc = "clear"
    /\ db' = IF dbOk THEN ClearAndAdvance(db, Head(srv[s].ids), now) ELSE db
    /\ srv' = [srv EXCEPT ![s].ids = Tail(@), ![s].pc = AfterId(srv[s].ids)]
    /\ UNCHANGED <<redis, worker, ctxDone, sub, execs, calls, now>>

-----------------------------------------------------------------------------
(* Time *)

Tick ==
    /\ \E t \in Instants : t > now /\ now' = t
    /\ UNCHANGED <<db, redis, worker, ctxDone, srv, sub, execs, calls>>

-----------------------------------------------------------------------------
(* Steps of the processes *)

\* SubmitJob for the ids of J, store and broker answering every call
GatewayOK(J) ==
    \E id \in J :
        \/ \E command \in Commands : SubmitJobCreate(id, command)
        \/ SubmitJobPush(id)

\* Start/processNextJob of worker w, store and broker answering every call
WorkerOK(w) ==
    \/ WorkerSelect(w)
    \/ WorkerPop(w)
    \/ WorkerPopTimeout(w)
    \/ WorkerSetRunning(w, TRUE)
    \/ WorkerExec(w)
    \/ WorkerFinal(w, TRUE)

\* Run/StartLeaderLoops of server s, store and broker answering every call
LeaderOK(s, maxTicks) ==
    \/ Campaign(s)
    \/ LeaderReap(s, TRUE, maxTicks)
    \/ LeaderScan(s)
    \/ LeaderPush(s)
    \/ LeaderClear(s, TRUE)

\* SubmitJob calls that end at the validation or at the primary key
GatewayRefuse(J) ==
    \E id \in J :
        \/ \E command \in Commands \cup BlankCommands : SubmitJobInvalid(id, command)
        \/ \E command \in BlankCommands : SubmitJobCreate(id, command)
        \/ SubmitJobConflict(id)

\* the calls to the store or the broker that fail, and a gateway that dies
GatewayFault(J) ==
    \E id \in J :
        \/ \E dbOk, histOk \in BOOLEAN : SubmitJobPushError(id, dbOk, histOk)
        \/ GatewayCrash(id)

WorkerFault(w) ==
    \/ WorkerPopError(w)
    \/ WorkerBackoff(w)
    \/ \E dbOk, histOk \in BOOLEAN : WorkerGetJobError(w, dbOk, histOk)
    \/ WorkerSetRunning(w, FALSE)
    \/ WorkerSetRunningError(w)
    \/ WorkerFinal(w, FALSE)
    \/ WorkerFinalError(w)

\* Run of server s: the session ends and the loop of s returns
LeaderLoss(s) ==
    \/ LeaderStop(s)
    \/ LeaderExit(s)

LeaderFault(s, maxTicks) ==
    \/ LeaderReap(s, FALSE, maxTicks)
    \/ LeaderScanError(s)
    \/ LeaderPushError(s)
    \/ LeaderClear(s, FALSE)

-----------------------------------------------------------------------------
(* Spec, the dispatch model: one submitted job, two workers and server s1  *)
(* over one store and one broker; any call to the store or the broker may  *)
(* fail, a worker or the gateway may die at any point; s1 keeps the        *)
(* leadership once it has it.                                              *)

Next ==
    \/ GatewayOK({"j1"})
    \/ GatewayFault({"j1"})
    \/ \E w \in Workers : WorkerOK(w)
    \/ \E w \in Workers : WorkerFault(w)
    \/ \E w \in Workers : WorkerCrash(w)
    \/ LeaderOK("s1", MaxTicks)
    \/ LeaderFault("s1", MaxTicks)

Spec == Init /\ [][Next]_vars

-----------------------------------------------------------------------------
(* HappySpec, the single-worker model: one job, worker w1 alone, leader s1 *)
(* and the clock; no call fails and no process dies.                       *)

HappyNext ==
    \/ GatewayOK({"j1"})
    \/ WorkerOK("w1")
    \/ LeaderOK("s1", MaxSweeps)
    \/ Tick

HappySpec == Init /\ [][HappyNext]_vars

-----------------------------------------------------------------------------
(* LiveSpec, the no-leader deployment (ETCD_ENDPOINTS unset): two jobs,    *)
(* two workers, no call fails; worker w1 may die, worker w2 keeps running. *)
(* Every worker process that is alive keeps taking steps.                  *)

LiveNext ==
    \/ GatewayOK(Jobs)
    \/ \E w \in Workers : WorkerOK(w)
    \/ WorkerCrash("w1")

LiveSpec ==
    /\ Init
    /\ [][LiveNext]_vars
    /\ \A w \in Workers : WF_vars(WorkerOK(w))

-----------------------------------------------------------------------------
(* ElectSpec, the election model: servers s1 and s2 campaign for the       *)
(* leadership, sessions end at any point and leadership changes hands; one *)
(* job is submitted and no worker runs; a push fails when its leaderCtx is *)
(* cancelled (or the broker is down).  A loop that was started keeps       *)
(* taking steps, and a select that can take ctx.Done() again and again     *)
(* takes it in the end.                                                    *)

\* StartLeaderLoops of server s between the select and the end of a tick
LeaderTick(s) ==
    \/ LeaderScan(s)
    \/ LeaderPush(s)
    \/ LeaderPushError(s)
    \/ LeaderClear(s, TRUE)

ElectNext ==
    \/ GatewayOK({"j1"})
    \/ \E s \in Servers : LeaderOK(s, MaxTicks)
    \/ \E s \in Servers : LeaderPushError(s)
    \/ \E s \in Servers : LeaderLoss(s)

ElectSpec ==
    /\ Init
    /\ [][ElectNext]_vars
    /\ \A s \in Servers : WF_vars(LeaderTick(s))
    /\ \A s \in Servers : SF_vars(LeaderExit(s))

-----------------------------------------------------------------------------
(* GatewaySpec, the submission model: SubmitJob calls for two ids, some of *)
(* those for j1 with a blank command or after its row exists; the push or  *)
(* the status write of a call may fail and the gateway may die; the two   *)
(* workers run beside it.                                                  *)

GatewayNext ==
    \/ GatewayOK(Jobs)
    \/ GatewayRefuse({"j1"})
    \/ GatewayFault(Jobs)
    \/ \E w \in Workers : WorkerOK(w)

GatewaySpec == Init /\ [][GatewayNext]_vars

-----------------------------------------------------------------------------
(* ScheduleSpec, scheduled work: an operator inserts a one-time or a       *)
(* recurring row for j1, server s1 leads and never loses its session,      *)
(* worker w1 runs, the clock advances, no call fails.  The leader makes    *)
(* up to MaxSweeps enqueueing ticks and any number of idle ones; the       *)
(* worker and the leader loop keep taking steps.                           *)

OperatorInsert(J) ==
    \E id \in J, command \in Commands :
        \/ \E t \in Instants : InsertTask(id, command, <<t>>, NULL)
        \/ InsertTask(id, command, NULL, <<CronExpr>>)

ScheduleNext ==
    \/ OperatorInsert({"j1"})
    \/ WorkerOK("w1")
    \/ LeaderOK("s1", MaxSweeps)
    \/ Tick

ScheduleSpec ==
    /\ Init
    /\ [][ScheduleNext]_vars
    /\ WF_vars(WorkerOK("w1"))
    /\ WF_vars(LeaderOK("s1", MaxSweeps))

-----------------------------------------------------------------------------
(* ScheduleFaultSpec: the same deployment with a store that may fail the   *)
(* leader's calls after a push; j1 is either inserted by the operator or   *)
(* submitted through the gateway.                                          *)

ScheduleFaultNext ==
    \/ OperatorInsert({"j1"})
    \/ GatewayOK({"j1"})
    \/ WorkerOK("w1")
    \/ LeaderOK("s1", MaxTicks)
    \/ LeaderClear("s1", FALSE)
    \/ Tick

ScheduleFaultSpec == Init /\ [][ScheduleFaultNext]_vars

-----------------------------------------------------------------------------
(* RecoverSpec, a gateway that dies: SubmitJob for j1 writes the row and   *)
(* the gateway may die before its push; server s1 leads and keeps its      *)
(* session, worker w1 runs, store and broker answer every call.  The       *)
(* leader loop keeps taking steps.                                         *)

RecoverNext ==
    \/ GatewayOK({"j1"})
    \/ GatewayCrash("j1")
    \/ WorkerOK("w1")
    \/ LeaderOK("s1", MaxTicks)

RecoverSpec ==
    /\ Init
    /\ [][RecoverNext]_vars
    /\ WF_vars(LeaderOK("s1", MaxTicks))

-----------------------------------------------------------------------------
(* CrashSpec, a worker that dies: one job, workers w1 and w2, leader s1    *)
(* and the clock; no call fails; w1 may die between its RUNNING write and  *)
(* its final write.  Worker w2 and the leader loop keep taking steps and   *)
(* the clock keeps advancing up to the last instant.                       *)

\* worker w is killed after UpdateJobStatus(RUNNING) and before the final
\* UpdateJobStatus
CrashWhileRunning(w) ==
    /\ worker[w].pc \in {"exec", "final"}
    /\ WorkerCrash(w)

CrashNext ==
    \/ GatewayOK({"j1"})
    \/ \E w \in Workers : WorkerOK(w)
    \/ CrashWhileRunning("w1")
    \/ LeaderOK("s1", MaxTicks)
    \/ Tick

CrashSpec ==
    /\ Init
    /\ [][CrashNext]_vars
    /\ WF_vars(WorkerOK("w2"))
    /\ WF_vars(LeaderOK("s1", MaxTicks))
    /\ WF_vars(Tick)

-----------------------------------------------------------------------------
(* RetrySpec, a worker whose calls fail: two jobs are submitted, workers   *)
(* w1 and w2 run without a leader; any call of w1 to the store or the      *)
(* broker may fail, w2's calls are answered.                               *)

RetryNext ==
    \/ GatewayOK(Jobs)
    \/ \E w \in Workers : WorkerOK(w)
    \/ WorkerFault("w1")

RetrySpec == Init /\ [][RetryNext]_vars

-----------------------------------------------------------------------------
(* ShutdownSpec, a worker that is told to stop: two jobs are submitted,    *)
(* worker w1 runs and its Pop may fail; SIGINT or SIGTERM reaches w1 at    *)
(* any point.  The worker keeps taking steps.                              *)

ShutdownNext ==
    \/ GatewayOK(Jobs)
    \/ WorkerOK("w1")
    \/ WorkerPopError("w1")
    \/ WorkerBackoff("w1")
    \/ WorkerCancel("w1")

ShutdownSpec ==
    /\ Init
    /\ [][ShutdownNext]_vars
    /\ WF_vars(WorkerOK("w1"))
    /\ WF_vars(WorkerBackoff("w1"))

-----------------------------------------------------------------------------
(* SweepFaultSpec, a broker that fails pushes: an operator inserts         *)
(* one-time and recurring rows for two ids, server s1 leads and the clock  *)
(* advances; any push of the leader's loop may fail.  No worker runs.      *)

SweepFaultNext ==
    \/ OperatorInsert(Jobs)
    \/ LeaderOK("s1", MaxSweeps)
    \/ LeaderPushError("s1")
    \/ Tick

SweepFaultSpec == Init /\ [][SweepFaultNext]_vars

-----------------------------------------------------------------------------
(* QueueSpec, the queue model: a client calls the methods of QueueManager  *)
(* with the ids of Jobs in any order; the broker answers every call.       *)

QueueNext ==
    \/ \E id \in Jobs : QueuePush(id)
    \/ QueuePop
    \/ \E id \in Jobs : QueueAck(id)
    \/ \E id \in Jobs : QueueRequeue(id)
    \/ \E id \in Jobs : QueueDeadLetter(id)

QueueSpec == Init /\ [][QueueNext]_vars

-----------------------------------------------------------------------------
(* Properties *)

\* SubmitJob returned success for id: row written and id pushed onto pending
Submitted(id) == sub[id] = "queued"

Terminal(id) == id \in DOMAIN db.tasks /\ db.tasks[id].status \in {"SUCCEEDED", "FAILED"}

InPending(id) == id \in Range(redis.pending_jobs)

InProcessing(id) == id \in Range(redis.processing_jobs)

\* the worker processes that popped id and have not finished processNextJob
\* for it; a process that died in between still counts
Holders(id) ==
    {w \in Workers : worker[w].jobId = id /\ worker[w].pc \in {"get", "exec", "final", "crashed"}}

\* the step of worker w in which PopJob returns a job id
PopStep(w) == worker[w].pc = "pop" /\ worker'[w].pc = "get"

\* s without its i-th entry
Without(s, i) == SubSeq(s, 1, i - 1) \o SubSeq(s, i + 1, Len(s))

\* the output column holds what a worker wrote after a run of the given kind
WorkerWrote(row, prefix) ==
    row.output # NULL /\ row.output[1] # << >> /\ row.output[1][1] = prefix

\* C1 (P1, at-least-once execution): every job whose SubmitJob returned
\* success eventually has a row that is SUCCEEDED or FAILED, while worker w2
\* keeps running, commands terminate and no call to store or broker fails.
AtLeastOnceExecution ==
    \A id \in Jobs : Submitted(id) ~> Terminal(id)

\* C2 (FIFO dispatch): every Pop returns the oldest entry of pending_jobs,
\* the one at its head.
FifoDispatch ==
    [][\A w \in Workers : PopStep(w) => worker'[w].jobId = Head(redis.pending_jobs)]_vars

\* C3 (Pop is an atomic transfer): a Pop takes exactly one entry out of
\* pending_jobs and puts that id into processing_jobs in the same step, and
\* in every state each process that popped an id, alive or dead, has an entry
\* of its own for it in processing_jobs: no popped id is in neither list and
\* no two processes got the same entry.
PopAtomicTransfer ==
    /\ [](\A id \in Jobs : Cardinality(Holders(id)) <= Count(redis.processing_jobs, id))
    /\ [][\A w \in Workers :
            PopStep(w) =>
                LET id == worker'[w].jobId
                IN  /\ \E i \in 1..Len(redis.pending_jobs) :
                          /\ redis.pending_jobs[i] = id
                          /\ redis'.pending_jobs = Without(redis.pending_jobs, i)
                    /\ Len(redis'.processing_jobs) = Len(redis.processing_jobs) + 1
                    /\ Count(redis'.processing_jobs, id) = Count(redis.processing_jobs, id) + 1
                    /\ redis'.dlq_tasks = redis.dlq_tasks]_vars

\* two processes hold an entry for job j1 at once, one of them dead
PopAtomicTransferWitness ==
    \E w, v \in Workers :
        /\ w # v
        /\ {w, v} \subseteq Holders("j1")
        /\ worker[w].pc = "crashed"
        /\ worker[v].pc = "exec"

\* C4 (I3): each job id occurs at most once in pending_jobs and
\* processing_jobs taken together.
QueueUniqueness ==
    \A id \in Jobs : Count(redis.pending_jobs, id) + Count(redis.processing_jobs, id) <= 1

\* C5 (retry policy): a row carrying the diagnostic of a failed run has had
\* its retries incremented; with retries <= max_retries it was reset to
\* PENDING and its id requeued, otherwise it is FAILED and its id is in
\* dlq_tasks.
RetryPolicy ==
    \A id \in DOMAIN db.tasks :
        LET row == db.tasks[id]
        IN  WorkerWrote(row, "Error: ") =>
                /\ row.retries >= 1
                /\ IF row.retries <= row.max_retries
                   THEN row.status = "PENDING" /\ (InPending(id) \/ InProcessing(id))
                   ELSE row.status = "FAILED" /\ id \in Range(redis.dlq_tasks)

\* C6 (P2, retry bound): the command of a job is executed at most
\* max_retries + 1 times.
RetryBound ==
    \A id \in DOMAIN db.tasks : execs[id] <= db.tasks[id].max_retries + 1

\* C8 (acknowledge on completion): once a worker has finalised a job as
\* SUCCEEDED, or as FAILED by cancellation, and no worker is processing the
\* job any more, its id is not in processing_jobs.
AckOnCompletion ==
    \A id \in DOMAIN db.tasks :
        LET row == db.tasks[id]
        IN  (/\ \/ row.status = "SUCCEEDED"
                \/ row.status = "FAILED" /\ WorkerWrote(row, "Job cancelled: ")
             /\ Holders(id) = {})
            => ~InProcessing(id)

HappyPath ==
    [][\A id \in DOMAIN db.tasks :
          LET row == db.tasks[id]
              new == db'.tasks[id]
          IN  CmdErr(row.command) = NULL =>
                  /\ (row.status = "PENDING" /\ new.status # "PENDING") =>
                         (new.status = "RUNNING" /\ new.output = NULL)
                  /\ (row.status = "RUNNING" /\ new.status # "RUNNING") =>
                         /\ new.status = "SUCCEEDED"
                         /\ new.output = nullableString(CmdOutput(row.command))]_vars

\* the output SubmitJob writes when its push failed
PushFailedOutput == <<"Failed to add job to processing queue">>

\* the step in which a SubmitJob call for id returns the error of its push
PushFailedStep(id) == sub[id] = "created" /\ sub'[id] = "failed"

\* C11 (Submit): the CreateJob of a SubmitJob call writes a row that is
\* PENDING with retries 0 and touches no queue; its PushJob comes after the
\* row was written, appends the id once at the tail of pending_jobs and
\* changes nothing else.
SubmitWritesThenPushes ==
    [][\A id \in Jobs :
          /\ calls'[id].creates # calls[id].creates =>
                 /\ db'.tasks[id].status = "PENDING"
                 /\ db'.tasks[id].retries = 0
                 /\ redis' = redis
          /\ calls'[id].pushes # calls[id].pushes =>
                 /\ calls[id].creates >= 1
                 /\ id \in DOMAIN db.tasks
                 /\ redis'.pending_jobs = Append(redis.pending_jobs, id)
                 /\ redis'.processing_jobs = redis.processing_jobs
                 /\ redis'.dlq_tasks = redis.dlq_tasks
                 /\ db' = db]_vars

\* SubmitJob for j1 returned success with j2 queued before it
SubmitWritesThenPushesWitness ==
    /\ Submitted("j1")
    /\ db.tasks["j1"].status = "PENDING"
    /\ db.tasks["j1"].retries = 0
    /\ redis.pending_jobs = <<"j2", "j1">>

\* C12 (empty command): a SubmitJob call whose command is empty once trimmed
\* changes neither the store nor the broker, and no row ever holds such a
\* command.
BlankCommandRefused ==
    /\ [](\A id \in DOMAIN db.tasks : db.tasks[id].command \notin BlankCommands)
    /\ [][\A id \in Jobs :
            calls'[id].invalid # calls[id].invalid => (db' = db /\ redis' = redis)]_vars

\* two calls with a blank command were refused for j1 and nothing was written
BlankCommandRefusedWitness ==
    /\ calls["j1"].invalid = 2
    /\ db = EmptyDB
    /\ redis = EmptyRedis

\* C13 (push failure), as claimed: the call whose push failed leaves the row
\* FAILED with the diagnostic output and does not touch the queue.
PushFailureMarksFailed ==
    [][\A id \in Jobs :
          PushFailedStep(id) =>
              /\ id \in DOMAIN db'.tasks
              /\ db'.tasks[id].status = "FAILED"
              /\ db'.tasks[id].output = <<PushFailedOutput>>
              /\ redis' = redis]_vars

\* C13 (push failure), amended: the call whose push failed does not touch
\* the queue, leaves the row in the store, and either writes it FAILED with
\* the diagnostic output or, when that status write fails too, leaves the
\* store as it was.
PushFailureHandled ==
    [][\A id \in Jobs :
          PushFailedStep(id) =>
              /\ id \in DOMAIN db'.tasks
              /\ redis' = redis
              /\ \/ /\ db'.tasks[id].status = "FAILED"
                    /\ db'.tasks[id].output = <<PushFailedOutput>>
                 \/ db' = db]_vars

\* the push of SubmitJob for j1 failed: the row is FAILED with the
\* diagnostic output and j1 is in no list
PushFailureHandledWitness ==
    /\ sub["j1"] = "failed"
    /\ db.tasks["j1"].status = "FAILED"
    /\ db.tasks["j1"].output = <<PushFailedOutput>>
    /\ ~InPending("j1")
    /\ ~InProcessing("j1")

\* C14 (same id): of the SubmitJob calls carrying one id at most one creates
\* the row and at most one pushes the id; a call that fails at the primary
\* key changes neither the store nor the broker.
SameIdCreatesOnce ==
    /\ [](\A id \in Jobs : calls[id].creates <= 1 /\ calls[id].pushes <= 1)
    /\ [][\A id \in Jobs :
            calls'[id].conflicts # calls[id].conflicts => (db' = db /\ redis' = redis)]_vars

\* three calls carried j1: one created and pushed it, two failed at the key
SameIdCreatesOnceWitness ==
    /\ calls["j1"].creates = 1
    /\ calls["j1"].pushes = 1
    /\ calls["j1"].conflicts = 2

\* the server instances that are inside a maintenance tick
InTick == {s \in Servers : srv[s].pc \in {"scan", "push", "clear"}}

\* StartLeaderLoops of s is running with its leaderCtx cancelled
LostLeadership(s) == srv[s].pc # "campaign" /\ ~srv[s].lease

\* C19 (leader exclusivity): at most one server instance is inside a
\* maintenance tick (stale reaping or enqueue sweep) at any time.
LeaderExclusivity ==
    Cardinality(InTick) <= 1

\* C20 (leadership loss and re-election): the maintenance loop of an
\* instance whose session ended eventually returns, and an instance that
\* wins an election, the first or a later one, has its loop started.
LossStopsReelectionRestarts ==
    /\ \A s \in Servers : LostLeadership(s) ~> (srv[s].pc = "campaign")
    /\ [][\A s \in Servers :
            srv'[s].terms # srv[s].terms =>
                (srv[s].pc = "campaign" /\ srv'[s].pc = "wait" /\ srv'[s].lease)]_vars

\* s1 won a second election after its first loop had made a tick, and its
\* loop is making a tick again
LossStopsReelectionRestartsWitness ==
    /\ srv["s1"].terms = 2
    /\ srv["s1"].lease
    /\ srv["s1"].ticks = 1
    /\ srv["s1"].pc = "wait"
    /\ srv["s2"].terms = 1

-----------------------------------------------------------------------------
(* Scheduled rows *)

\* id has a row that an operator inserted
Inserted(id) == sub[id] = "inserted" /\ id \in DOMAIN db.tasks

\* id has an operator's row without a cron_expr
OneTime(id) == Inserted(id) /\ db.tasks[id].cron_expr = NULL

\* id has an operator's row with a cron_expr
Recurring(id) == Inserted(id) /\ db.tasks[id].cron_expr # NULL

\* id is in pending_jobs or processing_jobs of q while its row in d has an
\* execute_at
QueuedUncleared(d, q, id) ==
    /\ id \in DOMAIN d.tasks
    /\ d.tasks[id].execute_at # NULL
    /\ id \in Range(q.pending_jobs) \cup Range(q.processing_jobs)

\* the step in which the leader loop of s pushes id
LeaderPushStep(s, id) ==
    /\ srv[s].pc = "push"
    /\ srv'[s].pc = "clear"
    /\ Head(srv[s].ids) = id

\* the step in which the leader loop of s finishes the loop body for id
LeaderClearStep(s, id) ==
    /\ srv[s].pc = "clear"
    /\ srv'[s].ids = Tail(srv[s].ids)
    /\ Head(srv[s].ids) = id

\* C15 as stated (I5): every id in pending_jobs or processing_jobs has
\* execute_at NULL in its row, also between the leader's push and its
\* ClearExecuteAt and when ClearExecuteAt fails.
ExecuteAtNullWhileQueued ==
    \A id \in Jobs : ~QueuedUncleared(db, redis, id)

\* C15 (amended): a row written by SubmitJob has execute_at NULL at all
\* times; an id comes to be queued with execute_at set only by the leader's
\* push of that id; and a ClearExecuteAt that the store carries out leaves
\* execute_at NULL.
QueuedUnclearedOnlyAfterLeaderPush ==
    /\ [](\A id \in DOMAIN db.tasks :
            sub[id] # "inserted" => db.tasks[id].execute_at = NULL)
    /\ [][\A id \in Jobs :
            (~QueuedUncleared(db, redis, id) /\ QueuedUncleared(db', redis', id))
                => \E s \in Servers : LeaderPushStep(s, id)]_vars
    /\ [][\A s \in Servers, id \in Jobs :
            (LeaderClearStep(s, id) /\ db' # db)
                => db'.tasks[id].execute_at = NULL]_vars

\* the one-time row of j1 was pushed by the leader at a later instant than
\* its insertion, its execute_at was cleared, and its id is still pending
QueuedUnclearedOnlyAfterLeaderPushWitness ==
    /\ OneTime("j1")
    /\ db.tasks["j1"].execute_at = NULL
    /\ db.tasks["j1"].updated_at > 0
    /\ db.tasks["j1"].status = "PENDING"
    /\ InPending("j1")

\* C16 (one-time tasks): the leader pushes a one-time task only when its
\* execute_at is set and has been reached; once execute_at is cleared no
\* later tick pushes the task again.
OneTimeEnqueuedOnce ==
    [][\A s \in Servers, id \in Jobs :
        (LeaderPushStep(s, id) /\ OneTime(id))
            => (db.tasks[id].execute_at # NULL /\ db.tasks[id].execute_at[1] <= now)]_vars

\* C17 (P4, cron monotonicity): each enqueue of a recurring task advances
\* its next_run_at to a strictly later instant than the one it had.
CronMonotonicity ==
    [][\A s \in Servers, id \in Jobs :
        (LeaderClearStep(s, id) /\ Recurring(id))
            => db'.tasks[id].next_run_at[1] > db.tasks[id].next_run_at[1]]_vars

\* C18 (recurring cycle): after a run of a recurring task succeeded its
\* row returns to PENDING, so that the task becomes due again.
RecurringCycle ==
    \A id \in Jobs :
        (Recurring(id) /\ db.tasks[id].status = "SUCCEEDED")
            ~> (Recurring(id) /\ db.tasks[id].status = "PENDING")

-----------------------------------------------------------------------------
(* Stale reaping *)

\* the step in which the leader loop of s runs MarkStaleRunningJobsFailed
ReapStep(s) == srv[s].pc = "wait" /\ srv'[s].pc = "scan"

\* the output column ends with the staleness marker
MarkedStale(row) ==
    row.output # NULL /\ row.output[1] # << >> /\ Last(row.output[1]) = StaleMarker

\* C21 (stale reaping is exact): the reaping of a leader tick sets FAILED,
\* with the staleness marker appended to the output, exactly the rows that
\* are RUNNING with updated_at older than now minus 600 seconds; every other
\* row (RUNNING and younger, PENDING, SUCCEEDED, FAILED) stays as it is.
StaleReapingExact ==
    [][\A s \in Servers :
        ReapStep(s) =>
            \A id \in DOMAIN db.tasks :
                LET row == db.tasks[id]
                IN  IF row.status = "RUNNING" /\ row.updated_at < now - StaleCutoffSeconds
                    THEN /\ db'.tasks[id].status = "FAILED"
                         /\ db'.tasks[id].output = <<Coalesce(row.output) \o <<StaleMarker>>>>
                    ELSE db'.tasks[id] = row]_vars

\* the reaping of this tick has just failed the row of j1, RUNNING since
\* instant 0, at instant 602
StaleReapingExactWitness ==
    /\ srv["s1"].pc = "scan"
    /\ "j1" \in DOMAIN db.tasks
    /\ db.tasks["j1"].status = "FAILED"
    /\ MarkedStale(db.tasks["j1"])
    /\ db.tasks["j1"].updated_at = now
    /\ Len(db.task_history["j1"]) = 1
    /\ db.task_history["j1"][1].start_time = <<0>>

-----------------------------------------------------------------------------
(* Recovery of rows that were never pushed *)

\* the gateway died between CreateJob and PushJob for id and nothing has
\* pushed the id since: the row is PENDING with execute_at NULL and the id
\* is in no list
Orphaned(id) ==
    /\ sub[id] = "crashed"
    /\ id \in DOMAIN db.tasks
    /\ db.tasks[id].status = "PENDING"
    /\ db.tasks[id].execute_at = NULL
    /\ id \notin Range(redis.pending_jobs) \cup Range(redis.processing_jobs)
                   \cup Range(redis.dlq_tasks)

\* C22 (recovery sweep): the id of a row that is PENDING with execute_at
\* NULL and in no list, its gateway having died before the push, is
\* eventually pushed onto pending_jobs by the leader's sweep.
RecoverySweep ==
    \A id \in Jobs : Orphaned(id) ~> InPending(id)

\* j1 is in pending_jobs although the SubmitJob call that wrote its row died
\* before its push
RecoverySweepWitness ==
    /\ sub["j1"] = "crashed"
    /\ calls["j1"].pushes = 0
    /\ redis.pending_jobs = <<"j1">>
    /\ db.tasks["j1"].status = "PENDING"
    /\ srv["s1"].pc = "clear"

-----------------------------------------------------------------------------
(* Status writes *)

\* C23 (P5, history completeness): every step that changes the status of a
\* job's row appends exactly one row to the job's history, and that row
\* carries the new status.
HistoryCompleteness ==
    [][\A id \in DOMAIN db.tasks :
        db'.tasks[id].status # db.tasks[id].status =>
            /\ Len(db'.task_history[id]) = Len(db.task_history[id]) + 1
            /\ Last(db'.task_history[id]).status = db'.tasks[id].status]_vars

\* status and output as GetJobStatus returns them
Visible(d, id) == <<GetJobStatus(d, id).Status, GetJobStatus(d, id).Output>>

\* the step in which the final UpdateJobStatus of worker w returns
FinalWriteStep(w) == worker[w].pc = "final" /\ worker'[w].pc = "loop"

\* C24 (P6, status idempotence): writing to a row the terminal status and
\* the output it already holds leaves the status and output that
\* GetJobStatus returns as they were after the first write.
StatusIdempotence ==
    /\ [][\A w \in Workers :
            LET id == worker[w].jobId
            IN  (/\ FinalWriteStep(w)
                 /\ id \in DOMAIN db.tasks
                 /\ Visible(db, id) = <<worker[w].status, worker[w].outputStr>>)
                    => Visible(db', id) = Visible(db, id)]_vars
    /\ [](\A id \in DOMAIN db.tasks :
            Terminal(id) =>
                Visible(UpdateJobStatus(db, id, GetJobStatus(db, id).Status,
                                        GetJobStatus(db, id).Output, now, TRUE), id)
                    = Visible(db, id))

\* two final writes of SUCCEEDED with the same output were made to the row
\* of j1 one after the other, and the row shows that status and output
StatusIdempotenceWitness ==
    LET h == db.task_history["j1"]
        n == Len(h)
    IN  /\ n >= 2
        /\ h[n].status = "SUCCEEDED"
        /\ h[n - 1].status = "SUCCEEDED"
        /\ h[n].result = h[n - 1].result
        /\ db.tasks["j1"].status = "SUCCEEDED"
        /\ db.tasks["j1"].output = h[n].result

-----------------------------------------------------------------------------
(* Queue operations *)

\* t is s without the first occurrence of x, which s has
FirstRemoved(s, x, t) ==
    \E i \in 1..Len(s) :
        /\ s[i] = x
        /\ \A k \in 1..(i - 1) : s[k] # x
        /\ t = Without(s, i)

\* C25 (Ack): AckProcessing(id) removes the first occurrence of id from
\* processing_jobs and leaves its other entries, pending_jobs and dlq_tasks
\* as they are; when id is not in processing_jobs nothing changes.
AckRemovesFirst ==
    [][\A id \in Jobs :
        QueueAck(id) =>
            IF id \in Range(redis.processing_jobs)
            THEN /\ FirstRemoved(redis.processing_jobs, id, redis'.processing_jobs)
                 /\ redis'.pending_jobs = redis.pending_jobs
                 /\ redis'.dlq_tasks = redis.dlq_tasks
            ELSE redis' = redis]_vars

\* an AckProcessing("j1") found j1 in processing_jobs, which held it twice
\* with j2 in between or before: the later j1 and j2 are still there
AckRemovesFirstWitness ==
    /\ calls["j1"].acks = 1
    /\ calls["j1"].requeues = 0
    /\ redis.processing_jobs = <<"j2", "j1">>
    /\ redis.pending_jobs = << >>
    /\ redis.dlq_tasks = << >>

\* C26 (Requeue, DeadLetter): called with id in processing_jobs,
\* RequeueFromProcessing(id) removes one occurrence of id (the first) from
\* processing_jobs and appends id at the tail of pending_jobs, and
\* MoveToDLQ(id) does the same into dlq_tasks; the third list and all other
\* entries stay as they are.
RequeueAndDeadLetter ==
    [][\A id \in Jobs :
        id \in Range(redis.processing_jobs) =>
            /\ QueueRequeue(id) =>
                    /\ FirstRemoved(redis.processing_jobs, id, redis'.processing_jobs)
                    /\ redis'.pending_jobs = redis.pending_jobs \o <<id>>
                    /\ redis'.dlq_tasks = redis.dlq_tasks
            /\ QueueDeadLetter(id) =>
                    /\ FirstRemoved(redis.processing_jobs, id, redis'.processing_jobs)
                    /\ redis'.dlq_tasks = redis.dlq_tasks \o <<id>>
                    /\ redis'.pending_jobs = redis.pending_jobs]_vars

\* j1 was requeued from processing_jobs to the tail of pending_jobs, behind
\* j2, and an entry was moved to dlq_tasks
RequeueAndDeadLetterWitness ==
    /\ calls["j1"].requeues = 1
    /\ redis.pending_jobs = <<"j2", "j1">>
    /\ redis.processing_jobs = << >>
    /\ Len(redis.dlq_tasks) = 1

-----------------------------------------------------------------------------
(* Crash recovery *)

\* the last instant of the clock
LastInstant == CHOOSE t \in Instants : \A u \in Instants : u <= t

\* a worker process died while it was running the command of id or about
\* to write its final status, and the row is RUNNING
Abandoned(id) ==
    /\ id \in DOMAIN db.tasks
    /\ db.tasks[id].status = "RUNNING"
    /\ \E w \in Workers : worker[w].pc = "crashed" /\ worker[w].jobId = id

\* the row of id was failed by the reaper: FAILED with the staleness marker
ReapedStale(id) ==
    /\ id \in DOMAIN db.tasks
    /\ db.tasks[id].status = "FAILED"
    /\ MarkedStale(db.tasks[id])

\* the row of id has been RUNNING, untouched, since an instant that the
\* clock leaves more than the cutoff behind
CutoffWillPass(id) ==
    /\ id \in DOMAIN db.tasks
    /\ db.tasks[id].updated_at + StaleCutoffSeconds < LastInstant

\* C27 (S4, crash recovery): the row of a job whose worker died between
\* the RUNNING write and the final write is eventually FAILED with the
\* staleness marker (rows written so late that the clock ends before their
\* cutoff passes are left aside).
CrashRecovery ==
    \A id \in Jobs :
        (Abandoned(id) /\ CutoffWillPass(id))
            ~> (ReapedStale(id) \/ ~CutoffWillPass(id))

-----------------------------------------------------------------------------
(* Terminal statuses, double execution, the reaper and live workers *)

\* C28 (terminal statuses are absorbing): once the row of a job holds
\* SUCCEEDED or FAILED, no step of the gateway, a worker or the leader
\* changes its status.
TerminalAbsorbing ==
    [][\A id \in DOMAIN db.tasks :
          db.tasks[id].status \in {"SUCCEEDED", "FAILED"} =>
              db'.tasks[id].status = db.tasks[id].status]_vars

\* the worker processes whose command for id is running
Executing(id) == {w \in Workers : worker[w].pc = "exec" /\ worker[w].jobId = id}

\* no worker process has died
NoCrash == \A w \in Workers : worker[w].pc # "crashed"

\* C29 (no concurrent double execution): as long as no worker has crashed,
\* no two workers run the command of the same job id at the same time, and
\* the command of a job that exits zero is run at most once.
NoDoubleExecution ==
    NoCrash =>
        \A id \in DOMAIN db.tasks :
            /\ Cardinality(Executing(id)) <= 1
            /\ CmdErr(db.tasks[id].command) = NULL => execs[id] <= 1

\* C30 (the reaper only fails abandoned jobs): the reaping of a leader tick
\* sets to FAILED no row whose command a live worker is running.
ReaperSparesLive ==
    [][\A s \in Servers :
        ReapStep(s) =>
            \A id \in DOMAIN db.tasks :
                (db.tasks[id].status = "RUNNING" /\ db'.tasks[id].status = "FAILED")
                    => Executing(id) = {}]_vars

-----------------------------------------------------------------------------
(* The enqueue sweep and the error paths of the worker *)

\* C31 (the sweep enqueues only PENDING rows that are due): at the push of
\* an id by the leader loop the row of the id is PENDING with execute_at
\* NULL or reached, or next_run_at reached, and the ids of one tick are at
\* most 100.
SweepPushesOnlyDue ==
    [][\A s \in Servers, id \in Jobs :
        LeaderPushStep(s, id) =>
            /\ id \in DOMAIN db.tasks
            /\ IsDue(db.tasks[id], now)
            /\ Len(srv[s].ids) <= DueLimit]_vars

\* the output the worker writes when it gives up fetching the row
GetJobFailedOutput == "Failed to retrieve job details: "

\* the step in which processNextJob of w returns an error after the pop
GiveUpStep(w) == worker[w].pc = "get" /\ worker'[w].pc = "backoff"

FinalReturnStep(w) == worker[w].pc = "final" /\ worker'[w].pc # "final"

\* C33 (final status write keeps failing): the final UpdateJobStatus is
\* attempted at most three times; a failed attempt before the third is
\* tried again and changes nothing; when the third fails too,
\* processNextJob returns without an error (the worker is back at the top
\* of its loop, not in its back-off), no list is touched, and the row stays
\* RUNNING with the updated_at of the RUNNING write, which the stale
\* reaper takes once the cutoff has passed.
FinalWriteRetries ==
    /\ [](\A w \in Workers : worker[w].pc = "final" => worker[w].retries < MAX_RETRIES)
    /\ [][\A w \in Workers :
            LET id == worker[w].jobId
            IN  /\ (worker[w].pc = "final" /\ worker'[w].pc = "final"
                        /\ worker'[w] # worker[w]) =>
                       /\ worker[w].retries + 1 < MAX_RETRIES
                       /\ worker'[w].retries = worker[w].retries + 1
                       /\ UNCHANGED <<db, redis, execs>>
                /\ FinalReturnStep(w) =>
                       /\ worker'[w] = IdleWorker
                       /\ UNCHANGED <<redis, execs>>
                       /\ db' = db =>
                             /\ worker[w].retries = MAX_RETRIES - 1
                             /\ db.tasks[id].status = "RUNNING"
                             /\ IsStale(db'.tasks[id], StaleCutoffSeconds,
                                        db.tasks[id].updated_at + StaleCutoffSeconds + 1)]_vars

\* w1 ran the command of j1 and gave up the final write: the row of j1 is
\* RUNNING, no worker holds j1, j1 is still in processing_jobs, and w1 has
\* gone on to pop j2
FinalWriteRetriesWitness ==
    /\ "j1" \in DOMAIN db.tasks
    /\ db.tasks["j1"].status = "RUNNING"
    /\ execs["j1"] = 1
    /\ Holders("j1") = {}
    /\ InProcessing("j1")
    /\ worker["w1"].pc = "get"
    /\ worker["w1"].jobId = "j2"
    /\ worker["w2"] = IdleWorker

-----------------------------------------------------------------------------
(* Shutdown of a worker *)

\* C34 (worker shutdown): once the cancellation of a worker is requested,
\* the worker pops no further job.
NoPopAfterCancel ==
    [][\A w \in Workers : PopStep(w) => ~ctxDone[w]]_vars

-----------------------------------------------------------------------------
(* Conservation of queue entries *)

\* number of occurrences of id in the three lists of q together
Occurrences(q, id) ==
    Count(q.pending_jobs, id) + Count(q.processing_jobs, id) + Count(q.dlq_tasks, id)

\* C35 (queue conservation): PopJob, RequeueFromProcessing and MoveToDLQ
\* leave the number of occurrences of every id in pending_jobs,
\* processing_jobs and dlq_tasks together as it was, also when the id they
\* are called with is not in processing_jobs.
QueueConservation ==
    [][\A id \in Jobs :
        (QueuePop \/ QueueRequeue(id) \/ QueueDeadLetter(id)) =>
            \A x \in Jobs : Occurrences(redis', x) = Occurrences(redis, x)]_vars

-----------------------------------------------------------------------------
(* Pop on an empty list *)

\* C36 (Pop on an empty pending list): PopJob returns an id only when
\* pending_jobs is not empty; on an empty pending_jobs it returns
\* ErrQueueTimeout and no list changes; the worker changes no row, runs no
\* command and is back at the top of its loop without a back-off, from
\* where it calls PopJob again.
PopTimeout ==
    [][\A w \in Workers :
        /\ PopStep(w) => redis.pending_jobs # << >>
        /\ WorkerPopTimeout(w) =>
               /\ redis.pending_jobs = << >>
               /\ worker'[w] = IdleWorker
               /\ UNCHANGED <<db, redis, execs>>
        /\ (worker[w].pc = "pop" /\ redis.pending_jobs = << >>
                /\ worker'[w] # worker[w]) =>
               UNCHANGED <<db, redis, execs>>
        /\ (worker[w].pc = "loop" /\ worker'[w] # worker[w] /\ ~ctxDone[w]) =>
               worker'[w].pc = "pop"]_vars

\* w2 is in PopJob on an empty pending_jobs while w1 runs the command of
\* j1, the only job submitted
PopTimeoutWitness ==
    /\ worker["w2"].pc = "pop"
    /\ redis.pending_jobs = << >>
    /\ redis.processing_jobs = <<"j1">>
    /\ worker["w1"].pc = "exec"
    /\ worker["w1"].jobId = "j1"
    /\ DOMAIN db.tasks = {"j1"}

-----------------------------------------------------------------------------
(* A push of the sweep that fails *)

\* the step in which the push of id by the leader loop of s fails
LeaderPushErrorStep(s, id) ==
    /\ LeaderPushError(s)
    /\ Head(srv[s].ids) = id

\* C37 (a push of the sweep fails): when the push of a due id fails, no row
\* and no list changes, the row of the id is still due, and the loop goes
\* on with the ids that remain in the answer of the tick; execute_at and
\* next_run_at of a row change only in the step that follows a successful
\* push of its id.
PushFailureSkipsId ==
    [][\A id \in Jobs :
        /\ \A s \in Servers :
               LeaderPushErrorStep(s, id) =>
                   /\ UNCHANGED <<db, redis>>
                   /\ IsDue(db'.tasks[id], now)
                   /\ srv'[s].ids = Tail(srv[s].ids)
                   /\ srv'[s].pc = IF srv'[s].ids # << >> THEN "push" ELSE "wait"
        /\ (/\ id \in DOMAIN db.tasks
            /\ \/ db'.tasks[id].execute_at # db.tasks[id].execute_at
               \/ db'.tasks[id].next_run_at # db.tasks[id].next_run_at) =>
               \E s \in Servers :
                   /\ LeaderClearStep(s, id)
                   /\ redis.pending_jobs # << >>
                   /\ Last(redis.pending_jobs) = id]_vars

\* the tick of s1 at instant 301 found j1 and j2 due, in this order; the
\* push of j1 failed: nothing is queued, the row of j1 is as it was
\* inserted, and the loop is about to push j2
PushFailureSkipsIdWitness ==
    /\ srv["s1"].pc = "push"
    /\ srv["s1"].ids = <<"j2">>
    /\ redis.pending_jobs = << >>
    /\ DOMAIN db.tasks = {"j1", "j2"}
    /\ db.tasks["j1"].execute_at = <<0>>
    /\ db.tasks["j1"].updated_at = 0
    /\ db.tasks["j2"].updated_at = 301
    /\ now = 301

-----------------------------------------------------------------------------
(* The history row of a status update *)

\* the row of id in d holds status, output and updated_at t
RowHolds(d, id, status, output, t) ==
    /\ id \in DOMAIN d.tasks
    /\ d.tasks[id].status = status
    /\ d.tasks[id].output = nullableString(output)
    /\ d.tasks[id].updated_at = t

\* C38 (the history append is best effort): an UpdateJobStatus whose
\* history INSERT fails reports success, and the row holds the new status,
\* output and updated_at; an UpdateJobStatus whose UPDATE fails returns the
\* error and changes neither the row nor the history; a history row is
\* appended only together with the row update it records.
HistoryBestEffort ==
    [][/\ \A w \in Workers :
            LET id == worker[w].jobId
            IN  /\ WorkerSetRunning(w, FALSE) =>
                       /\ RowHolds(db', id, "RUNNING", << >>, now)
                       /\ db'.task_history = db.task_history
                       /\ worker'[w].pc = "exec"
                /\ WorkerFinal(w, FALSE) =>
                       /\ RowHolds(db', id, worker[w].status, worker[w].outputStr, now)
                       /\ db'.task_history = db.task_history
                       /\ worker'[w] = IdleWorker
                /\ WorkerSetRunningError(w) =>
                       /\ db' = db
                       /\ worker'[w].pc = "backoff"
                /\ WorkerFinalError(w) => db' = db
       /\ \A id \in Jobs :
            db'.task_history[id] # db.task_history[id] =>
                LET h == Last(db'.task_history[id])
                IN  /\ Front(db'.task_history[id]) = db.task_history[id]
                    /\ id \in DOMAIN db'.tasks
                    /\ db'.tasks[id].status = h.status
                    /\ db'.tasks[id].output = h.result
                    /\ db'.tasks[id].updated_at = now]_vars

\* both status updates of j1 by w1 lost their history row: the row is
\* SUCCEEDED with the output of the command and j1 has no history
HistoryBestEffortWitness ==
    /\ RowHolds(db, "j1", "SUCCEEDED", CmdOutput("echo hello"), 0)
    /\ db.tasks["j1"].command = "echo hello"
    /\ db.task_history["j1"] = << >>
    /\ execs["j1"] = 1
    /\ worker["w1"] = IdleWorker

-----------------------------------------------------------------------------
(* One maintenance loop per server instance *)

\* the step in which server s wins an election and its callback is started
ElectedStep(s) == ~srv[s].lease /\ srv'[s].lease

\* C39 (one activation of the maintenance loop per instance): a server
\* instance wins an election, and has StartLeaderLoops started, only when
\* the loop of its previous session has returned; while that loop is still
\* running, the instance does not campaign.
OneLoopPerInstance ==
    [][\A s \in Servers :
        /\ ElectedStep(s) =>
               /\ srv[s].pc = "campaign"
               /\ srv'[s].pc = "wait"
               /\ srv'[s].ids = << >>
        /\ LostLeadership(s) =>
               /\ ~srv'[s].lease
               /\ srv'[s].terms = srv[s].terms]_vars

\* s1 lost its session and was elected again before any other instance:
\* its second loop is inside a tick
OneLoopPerInstanceWitness ==
    /\ srv["s1"].terms = 2
    /\ srv["s1"].lease
    /\ srv["s1"].pc = "scan"
    /\ srv["s2"].terms = 0

====
